---------------------------- MODULE Spec2Model ----------------------------
(***************************************************************************)
(* The "Seventeen" timing game: the Home component in its three variants.  *)
(*   "local"    src/src/app/page.tsx    local leaderboard, manual restart  *)
(*   "auto"     src/unnamed/part_000    no leaderboard, timed restart      *)
(*   "identity" src/docs/blueprint.md   identity, remote store, hard       *)
(*                                      cutoff at 18 s                     *)
(* Times are integers in milliseconds; a fraction of a millisecond is      *)
(* truncated.  An optional value (T | null) is a sequence of length <= 1.  *)
(***************************************************************************)
EXTENDS Integers, Sequences, FiniteSets, TLC

VARIABLES
  variant,          \* which Home component is mounted
  mounted,          \* FALSE after the component's teardown
  gameState,        \* useState<GameState>
  displayedTime,    \* useState(0)
  result,           \* useState<Result>
  isAiGenerating,   \* useState(false)
  scores,           \* useState<Score[]> (local variant)
  stored,           \* localStorage item 'seventeen-leaderboard' (<<>> = absent)
  toast,            \* title of the notification last raised ("" = none)
  requestRef,       \* useRef<number>: id of the frame last requested (0 = undefined)
  startTimeRef,     \* useRef<number | null>
  frames,           \* the browser's registered animation-frame callbacks (ids)
  clock,            \* timestamp of the last animation frame, relative to the start click
  aiCalls,          \* generateRageMessage calls in flight: the closure of each
  timeoutRef,       \* useRef<Timeout>: id of the timer last armed (0 = undefined)
  timers,           \* the browser's armed timeouts (ids)
  user,             \* useUser().user: <<>> or <<uid>>
  isUserLoading,    \* useUser().isUserLoading
  userProfile,      \* useDoc(users/uid).data: the snapshot last delivered
  userName,         \* useState('')
  showNameInput,    \* useState(false)
  displayedTimeRef, \* useRef(0) (identity variant)
  usersDoc,         \* document store: users/{uid}
  leaderboard,      \* document store: leaderboard collection, a set of [id, row]
  attemptsCol,      \* document store: users/{uid}/attempts, in order of creation
  rounds,           \* history: number of starts so far
  lastEvent,        \* history: the event handled last
  lastTick,         \* history: what the last tick of this round read and wrote
  attempts,         \* history: every finalTime recorded by an accepted stop, ascending
  stoppedBy         \* history: how this round ended: "", "click" or "timeout"

vars == <<variant, mounted, gameState, displayedTime, result, isAiGenerating,
          scores, stored, toast, requestRef, startTimeRef, frames, clock,
          aiCalls, timeoutRef, timers, user, isUserLoading, userProfile,
          userName, showNameInput, displayedTimeRef, usersDoc, leaderboard,
          attemptsCol, rounds, lastEvent, lastTick, attempts, stoppedBy>>

\* The program's own state: everything but the history variables.
progVars == <<variant, mounted, gameState, displayedTime, result, isAiGenerating,
              scores, stored, toast, requestRef, startTimeRef, frames,
              aiCalls, timeoutRef, timers, user, isUserLoading, userProfile,
              userName, showNameInput, displayedTimeRef, usersDoc, leaderboard,
              attemptsCol>>

-----------------------------------------------------------------------------
(* Program constants *)

TARGET_TIME == 17000
Capacity == 5
CutoffTime == 18000
SkipAmount == 50
\* Stands for Infinity: larger than every |delta| of the model.
Infinity == 1000000

-----------------------------------------------------------------------------
(* Bounds of the model *)

MaxRounds == 2
MaxBoardRounds == 6
MaxIdentityRounds == 3
\* The perturbation runs sample the true elapsed time every half second up
\* to PerturbSteps / 2 seconds.
PerturbSteps == 37
\* Range of true elapsed times (ms) of the classifier runs: deltas -615 .. +735.
ClassifierFrom == 15200
ClassifierTo == 16200

\* True elapsed times (ms) a frame may report; the first frame of a round
\* always reports 0.
ElapsedGrid == {0, 12000, 15668, 15684, 18000}
\* Elapsed times of the leaderboard runs: displayed 16500, 17100, 17201, 17300,
\* 16600, 17400, 17900 (|delta| 500, 100, 201, 300, 400, 400, 900).
BoardGrid == {0, 15288, 15744, 15820, 15895, 15364, 15970, 16345}
\* Math.random() * 0.03 lies in [0, 30) ms; 0 also stands for "no jitter".
JitterSet == {0, 29}
NoJitter == {0}
JitterRange == 0..29
\* The skip is 0.05 s or nothing.
SkipSet == {0, SkipAmount}
NoSkip == {0}
\* Elapsed times of the identity runs: |delta| 17000, 1000, 100, and the cutoff.
IdentityGrid == {0, 16000, 16900, 18000}

-----------------------------------------------------------------------------
(* Helpers *)

Null == <<>>
Some(x) == <<x>>
Abs(x) == IF x < 0 THEN -x ELSE x
Min(a, b) == IF a < b THEN a ELSE b

EmptyResult == [finalTime |-> 0, delta |-> 0, aiResponse |-> Null]

-----------------------------------------------------------------------------
(* Fallback classifier *)

FallbackLabelInclusive(delta) ==
  LET abs == Abs(delta) IN
  IF abs <= 20 THEN "PERFECT"
  ELSE IF abs <= 100 THEN "SO CLOSE"
  ELSE IF abs <= 300 THEN (IF delta > 0 THEN "TOO LATE" ELSE "TOO EARLY")
  ELSE IF abs <= 600 THEN "ALMOST"
  ELSE "NOT EVEN CLOSE"

FallbackLabel(delta) ==
  LET abs == Abs(delta) IN
  IF abs < 20 THEN "PERFECT"
  ELSE IF abs < 100 THEN "SO CLOSE"
  ELSE IF abs < 300 THEN (IF delta > 0 THEN "TOO LATE" ELSE "TOO EARLY")
  ELSE IF abs < 600 THEN "ALMOST"
  ELSE "NOT EVEN CLOSE"

getFallbackMessage(delta) ==
  LET message == FallbackLabel(delta) IN
  [message |-> message,
   secondaryTaunt |-> "",
   socialProofLine |->
     IF message = "PERFECT" THEN "You are in the top 0.01%"
     ELSE IF Abs(delta) < 500 THEN "93% fail between 16.5-17.5"
     ELSE "Most people struggle with timing."]

-----------------------------------------------------------------------------
(* Clock perturbation *)

\* t * speed + jitter + skip with speed = 1 + (t - 10) * 0.015 after 10 s:
\* in ms, t + t * (t - 10000) * 15 / 10^6.
manipulateTime(t, jitter, skip) ==
  LET extra == IF t > 10000 THEN (t * (t - 10000) * 3) \div 200000 ELSE 0
  IN t + extra + jitter + skip


-----------------------------------------------------------------------------
(* Local leaderboard: [...prevScores, newScore].sort(by |delta|).slice(0, 5) *)

absDelta(score) == Abs(score.delta)

InsertBeforeEqual(sorted, x) ==
  LET k == Cardinality({i \in 1..Len(sorted) : absDelta(sorted[i]) < absDelta(x)})
  IN SubSeq(sorted, 1, k) \o <<x>> \o SubSeq(sorted, k + 1, Len(sorted))

\* Array.prototype.sort is stable: an element goes after every element whose
\* key is not larger.
InsertAfterEqual(sorted, x) ==
  LET k == Cardinality({i \in 1..Len(sorted) : absDelta(sorted[i]) <= absDelta(x)})
  IN SubSeq(sorted, 1, k) \o <<x>> \o SubSeq(sorted, k + 1, Len(sorted))

RECURSIVE SortByAbsDelta(_)
SortByAbsDelta(s) ==
  IF s = <<>> THEN <<>>
  ELSE InsertAfterEqual(SortByAbsDelta(SubSeq(s, 1, Len(s) - 1)), s[Len(s)])

Slice(s, n) == SubSeq(s, 1, Min(n, Len(s)))

UpdatedScoresUnsorted(prevScores, newScore) ==
  Slice(Append(prevScores, newScore), Capacity)

UpdatedScoresUncut(prevScores, newScore) ==
  SortByAbsDelta(Append(prevScores, newScore))

UpdatedScores(prevScores, newScore) ==
  Slice(SortByAbsDelta(Append(prevScores, newScore)), Capacity)

-----------------------------------------------------------------------------
(* The stored form of the leaderboard: JSON.stringify / JSON.parse *)

NumberTextToCentiseconds(n) ==
  [negative |-> n < 0, whole |-> Abs(n) \div 1000, fraction |-> ((Abs(n) % 1000) \div 10) * 10]

\* The text of a number of seconds: a minus sign if negative, the whole
\* seconds, and the decimals (here the milliseconds).
NumberText(n) ==
  [negative |-> n < 0, whole |-> Abs(n) \div 1000, fraction |-> Abs(n) % 1000]

\* The number a text denotes.
ParseNumber(text) ==
  LET magnitude == text.whole * 1000 + text.fraction
  IN IF text.negative THEN 0 - magnitude ELSE magnitude

\* JSON.stringify(updatedScores): the array's entries in order, each with the
\* texts of its two numbers.
Stringify(list) ==
  [i \in 1..Len(list) |-> [finalTime |-> NumberText(list[i].finalTime),
                            delta |-> NumberText(list[i].delta)]]

\* JSON.parse(savedScores)
Parse(text) ==
  [i \in 1..Len(text) |-> [finalTime |-> ParseNumber(text[i].finalTime),
                            delta |-> ParseNumber(text[i].delta)]]

-----------------------------------------------------------------------------
(* Browser registries *)

\* requestAnimationFrame / setTimeout return an id never handed out before;
\* only equality of ids is read, so the least id not in use stands for it.
FreshId(inUse) == CHOOSE i \in 1..(Cardinality(inUse) + 1) : i \notin inUse

\* cancelAnimationFrame(ref) / clearTimeout(ref) behind "if (ref)".
Cancel(registry, ref) == IF ref # 0 THEN registry \ {ref} ELSE registry

KeepRegistered(registry, ref) == registry

\* stopTimer's cancelAnimationFrame(requestRef.current).
CancelOnStop(registry, ref) == Cancel(registry, ref)

-----------------------------------------------------------------------------
(* History *)

RECURSIVE InsertAscending(_, _)
InsertAscending(s, x) ==
  IF s = <<>> THEN <<x>>
  ELSE IF x <= Head(s) THEN <<x>> \o s
  ELSE <<Head(s)>> \o InsertAscending(Tail(s), x)

-----------------------------------------------------------------------------
(* Initial state: the component as first rendered *)

Variants == {"local", "auto", "identity"}

NoProfile == [exists |-> FALSE, displayName |-> "", personalBestAccuracy |-> Null,
              totalAttempts |-> Null]

InitOf(v) ==
  /\ variant = v
  /\ mounted = TRUE
  /\ gameState = "idle"
  /\ displayedTime = 0
  /\ result = EmptyResult
  /\ isAiGenerating = FALSE
  /\ scores = <<>>
  /\ stored = Null
  /\ toast = ""
  /\ requestRef = 0
  /\ startTimeRef = Null
  /\ frames = {}
  /\ clock = 0
  /\ aiCalls = <<>>
  /\ timeoutRef = 0
  /\ timers = {}
  /\ user = Null
  /\ isUserLoading = (v = "identity")
  /\ userProfile = Null
  /\ userName = ""
  /\ showNameInput = FALSE
  /\ displayedTimeRef = 0
  /\ usersDoc = NoProfile
  /\ leaderboard = {}
  /\ attemptsCol = <<>>
  /\ rounds = 0
  /\ lastEvent = "mount"
  /\ lastTick = Null
  /\ attempts = <<>>
  /\ stoppedBy = ""

Init == \E v \in Variants : InitOf(v)

InitBoard == InitOf("local")

\* What an earlier session may have left in local storage: nothing, or a list
\* this program saved (sorted, at most Capacity entries).
SavedLists ==
  {Null,
   Some(Stringify(<<[finalTime |-> 17100, delta |-> 100]>>)),
   Some(Stringify(<<[finalTime |-> 17000, delta |-> 0], [finalTime |-> 17010, delta |-> 10],
                    [finalTime |-> 16980, delta |-> -20], [finalTime |-> 17030, delta |-> 30],
                    [finalTime |-> 17040, delta |-> 40]>>))}

\* The load effect: getItem and JSON.parse inside try; the catch only logs.
LoadedScores(saved, loadOk) == IF loadOk /\ saved # Null THEN Parse(saved[1]) ELSE <<>>

\* The local variant once the load effect has run, over what storage held
\* and whether reading it threw.
InitStorage ==
  \E saved \in SavedLists, loadOk \in BOOLEAN :
    /\ variant = "local"
    /\ mounted = TRUE
    /\ gameState = "idle"
    /\ displayedTime = 0
    /\ result = EmptyResult
    /\ isAiGenerating = FALSE
    /\ scores = LoadedScores(saved, loadOk)
    /\ stored = saved
    /\ toast = ""
    /\ requestRef = 0
    /\ startTimeRef = Null
    /\ frames = {}
    /\ clock = 0
    /\ aiCalls = <<>>
    /\ timeoutRef = 0
    /\ timers = {}
    /\ user = Null
    /\ isUserLoading = FALSE
    /\ userProfile = Null
    /\ userName = ""
    /\ showNameInput = FALSE
    /\ displayedTimeRef = 0
    /\ usersDoc = NoProfile
    /\ leaderboard = {}
    /\ attemptsCol = <<>>
    /\ rounds = 0
    /\ lastEvent = "mount"
    /\ lastTick = Null
    /\ attempts = <<>>
    /\ stoppedBy = ""

-----------------------------------------------------------------------------
(* startGame *)

StartEnabledWhileGenerating ==
  \/ gameState = "idle" /\ ~(variant = "identity" /\ isUserLoading)
  \/ gameState = "stopped" /\ variant # "auto"

\* Where a start button is rendered and enabled: "Start Game" in idle,
\* "Try Again" in stopped once the feedback call is over (no such button in
\* the auto-restart variant).
StartEnabled ==
  \/ gameState = "idle" /\ ~(variant = "identity" /\ isUserLoading)
  \/ gameState = "stopped" /\ variant # "auto" /\ ~isAiGenerating

KeepResult == result

StartResult == EmptyResult

StartGame(maxRounds) ==
  /\ mounted
  /\ StartEnabled
  /\ rounds < maxRounds
  /\ displayedTime' = 0
  /\ displayedTimeRef' = IF variant = "identity" THEN 0 ELSE displayedTimeRef
  /\ result' = StartResult
  /\ gameState' = "playing"
  /\ startTimeRef' = Null
  /\ LET id == FreshId(frames \cup {requestRef})
     IN /\ requestRef' = id
        /\ frames' = frames \cup {id}
  /\ clock' = 0
  /\ rounds' = rounds + 1
  /\ lastEvent' = "start"
  /\ lastTick' = Null
  /\ stoppedBy' = ""
  /\ UNCHANGED <<variant, mounted, isAiGenerating, scores, stored, toast, aiCalls,
                 timeoutRef, timers, user, isUserLoading, userProfile, userName,
                 showNameInput, usersDoc, leaderboard, attemptsCol, attempts>>

-----------------------------------------------------------------------------
(* gameLoop: the animation-frame callback *)

FirstFrame == 16

\* Frame timestamps grow; the first frame of a round comes FirstFrame ms
\* after the start click.
FrameTimes(grid) ==
  IF startTimeRef = Null THEN {FirstFrame}
  ELSE {FirstFrame + e : e \in {g \in grid : FirstFrame + g > clock}}

RawTime(t, jitter, skip) == t

JitterTakenBack(t, jitter, skip) == manipulateTime(t, -jitter, skip)

\* What the perturbing variants show for a true elapsed time.
Manipulated(t, jitter, skip) == manipulateTime(t, jitter, skip)

GameLoop(grid, jitters, skips) ==
  /\ variant \in {"local", "auto"}
  /\ \E f \in frames, now \in FrameTimes(grid), jitter \in jitters, skip \in skips :
       LET start == IF startTimeRef = Null THEN now ELSE startTimeRef[1]
           elapsed == now - start
           manipulated == Manipulated(elapsed, jitter, skip)
           id == FreshId((frames \ {f}) \cup {requestRef})
       IN /\ startTimeRef' = Some(start)
          /\ displayedTime' = manipulated
          /\ requestRef' = id
          /\ frames' = (frames \ {f}) \cup {id}
          /\ clock' = now
          /\ lastTick' = Some([elapsed |-> elapsed, jitter |-> jitter, skip |-> skip,
                               displayed |-> manipulated])
  /\ lastEvent' = "tick"
  /\ UNCHANGED <<variant, mounted, gameState, result, isAiGenerating, scores, stored,
                 toast, aiCalls, timeoutRef, timers, user, isUserLoading,
                 userProfile, userName, showNameInput, displayedTimeRef, usersDoc,
                 leaderboard, attemptsCol, rounds, attempts, stoppedBy>>

-----------------------------------------------------------------------------
(* stopTimer, local variant *)

AcceptAnyStop == TRUE

\* "if (gameState !== 'playing') return;"
StopAccepted == gameState = "playing"

Ignored(event) ==
  /\ lastEvent' = event
  /\ UNCHANGED <<variant, mounted, gameState, displayedTime, result, isAiGenerating,
                 scores, stored, toast, requestRef, startTimeRef, frames, clock,
                 aiCalls, timeoutRef, timers, user, isUserLoading, userProfile,
                 userName, showNameInput, displayedTimeRef, usersDoc, leaderboard,
                 attemptsCol, rounds, lastTick, attempts, stoppedBy>>

AbsDeltaOf(finalTime) == Abs(finalTime - TARGET_TIME)

\* "const delta = finalTime - 17" (finalTime - TARGET_TIME in the identity variant)
DeltaOf(finalTime) == finalTime - TARGET_TIME

\* The part of stopTimer the three variants share: cancel the frame, go to
\* stopped, capture finalTime and delta, show the bare result, raise the
\* loading flag and call generateRageMessage.
StopCommon(finalTime) ==
  LET delta == DeltaOf(finalTime)
  IN /\ frames' = CancelOnStop(frames, requestRef)
     /\ gameState' = "stopped"
     /\ result' = [finalTime |-> finalTime, delta |-> delta, aiResponse |-> Null]
     /\ isAiGenerating' = TRUE
     /\ aiCalls' = Append(aiCalls, [finalTime |-> finalTime, delta |-> delta])
     /\ attempts' = InsertAscending(attempts, finalTime)
     /\ lastEvent' = "stop"
     /\ stoppedBy' = "click"
     /\ UNCHANGED <<variant, mounted, displayedTime, requestRef, startTimeRef, clock,
                    timeoutRef, timers, user, isUserLoading, userProfile, userName,
                    showNameInput, displayedTimeRef, rounds, lastTick>>

ScoresLostOnFailure(prevScores, updatedScores, saveOk) ==
  IF saveOk THEN updatedScores ELSE prevScores

\* "return updatedScores" comes after the try/catch around setItem.
ScoresAfterSave(prevScores, updatedScores, saveOk) == updatedScores

StopTimer(saveOutcomes) ==
  /\ mounted
  /\ variant = "local"
  /\ IF ~StopAccepted THEN Ignored("stop")
     ELSE \E saveOk \in saveOutcomes :
       LET finalTime == displayedTime
           delta == DeltaOf(finalTime)
           updatedScores == UpdatedScores(scores, [finalTime |-> finalTime, delta |-> delta])
       IN /\ StopCommon(finalTime)
          /\ scores' = ScoresAfterSave(scores, updatedScores, saveOk)
          \* localStorage.setItem may throw: the list is kept in memory only
          /\ stored' = IF saveOk THEN Some(Stringify(updatedScores)) ELSE stored
          /\ toast' = IF saveOk THEN toast ELSE "Leaderboard Error"
          /\ UNCHANGED <<usersDoc, leaderboard, attemptsCol>>

(* stopTimer, auto-restart variant *)
StopTimerAuto ==
  /\ mounted
  /\ variant = "auto"
  /\ IF ~StopAccepted THEN Ignored("stop")
     ELSE /\ StopCommon(displayedTime)
          /\ UNCHANGED <<scores, stored, toast, usersDoc, leaderboard, attemptsCol>>

-----------------------------------------------------------------------------
(* generateRageMessage and the rest of stopTimer after the await *)

CustomMessage == [message |-> "YOU BLINKED", secondaryTaunt |-> "Your brain lied to you.",
                  socialProofLine |-> ""]
EmptyMessage == [message |-> "", secondaryTaunt |-> "", socialProofLine |-> ""]

\* What the flow may resolve with: "return output!" hands on whatever the
\* prompt produced, a message, an empty message (z.string() admits it) or no
\* output at all.
AiOutputs == {Some(CustomMessage), Some(EmptyMessage), Null}

RemoveAt(s, i) == SubSeq(s, 1, i - 1) \o SubSeq(s, i + 1, Len(s))

NeverArmed == UNCHANGED <<timeoutRef, timers>>

\* part_000 128-130: the restart timer is armed after the try/catch/finally.
ArmRestart ==
  IF variant = "auto"
  THEN LET id == FreshId(timers \cup {timeoutRef})
       IN timeoutRef' = id /\ timers' = timers \cup {id}
  ELSE UNCHANGED <<timeoutRef, timers>>

NoFallback(delta) == Null

\* The catch branch's response.
FallbackResponse(delta) == Some(getFallbackMessage(delta))

FlagLeftOn == isAiGenerating

\* "finally { setIsAiGenerating(false) }" on the failure path.
FlagAfterFailure == FALSE

\* A state setter of an unmounted component does nothing.
AiSucceeds(outputs) ==
  /\ \E i \in DOMAIN aiCalls, aiResponse \in outputs :
       /\ result' = IF mounted
                    THEN [finalTime |-> aiCalls[i].finalTime, delta |-> aiCalls[i].delta,
                          aiResponse |-> aiResponse]
                    ELSE result
       /\ aiCalls' = RemoveAt(aiCalls, i)
  /\ isAiGenerating' = IF mounted THEN FALSE ELSE isAiGenerating
  /\ ArmRestart
  /\ lastEvent' = "aiSuccess"
  /\ UNCHANGED <<variant, mounted, gameState, displayedTime, scores, stored, toast,
                 requestRef, startTimeRef, frames, clock, user, isUserLoading,
                 userProfile, userName, showNameInput, displayedTimeRef, usersDoc,
                 leaderboard, attemptsCol, rounds, lastTick, attempts, stoppedBy>>

AiFails ==
  /\ \E i \in DOMAIN aiCalls :
       /\ result' = IF mounted
                    THEN [finalTime |-> aiCalls[i].finalTime, delta |-> aiCalls[i].delta,
                          aiResponse |-> FallbackResponse(aiCalls[i].delta)]
                    ELSE result
       /\ aiCalls' = RemoveAt(aiCalls, i)
  /\ toast' = "Connection Error"
  /\ isAiGenerating' = IF mounted THEN FlagAfterFailure ELSE isAiGenerating
  /\ ArmRestart
  /\ lastEvent' = "aiFailure"
  /\ UNCHANGED <<variant, mounted, gameState, displayedTime, scores, stored,
                 requestRef, startTimeRef, frames, clock, user, isUserLoading,
                 userProfile, userName, showNameInput, displayedTimeRef, usersDoc,
                 leaderboard, attemptsCol, rounds, lastTick, attempts, stoppedBy>>

\* part_000 128-130: the restart timer fires.
RestartTimerFires ==
  /\ \E t \in timers : timers' = timers \ {t}
  /\ gameState' = IF mounted THEN "idle" ELSE gameState
  /\ lastEvent' = "restartTimer"
  /\ UNCHANGED <<variant, mounted, displayedTime, result, isAiGenerating, scores, stored,
                 toast, requestRef, startTimeRef, frames, clock, aiCalls, timeoutRef,
                 user, isUserLoading, userProfile, userName, showNameInput,
                 displayedTimeRef, usersDoc, leaderboard, attemptsCol, rounds, lastTick,
                 attempts, stoppedBy>>

-----------------------------------------------------------------------------
(* Teardown: the cleanup of the mount effect *)

Unmount ==
  /\ mounted
  /\ mounted' = FALSE
  /\ frames' = Cancel(frames, requestRef)
  /\ timers' = IF variant = "auto" THEN Cancel(timers, timeoutRef) ELSE timers
  /\ lastEvent' = "unmount"
  /\ UNCHANGED <<variant, gameState, displayedTime, result, isAiGenerating, scores, stored,
                 toast, requestRef, startTimeRef, clock, aiCalls, timeoutRef,
                 user, isUserLoading, userProfile, userName, showNameInput,
                 displayedTimeRef, usersDoc, leaderboard, attemptsCol, rounds, lastTick,
                 attempts, stoppedBy>>

-----------------------------------------------------------------------------
(* Identity variant: sign-in, profile snapshot, display name *)

Uid == "u1"
Names == {"", " ", "Ann"}

NoTrim(name) == name

\* String.prototype.trim on the names above.
Trim(name) == IF name = " " THEN "" ELSE name

\* The anonymous sign-in started by the effect completes, or fails and
\* leaves no user.
SignInSettles ==
  /\ mounted
  /\ variant = "identity"
  /\ user = Null
  /\ \E signedIn \in BOOLEAN :
       /\ isUserLoading \/ signedIn
       /\ user' = IF signedIn THEN Some(Uid) ELSE Null
  /\ isUserLoading' = FALSE
  /\ lastEvent' = "signIn"
  /\ UNCHANGED <<variant, mounted, gameState, displayedTime, result, isAiGenerating,
                 scores, stored, toast, requestRef, startTimeRef, frames, clock,
                 aiCalls, timeoutRef, timers, userProfile, userName, showNameInput,
                 displayedTimeRef, usersDoc, leaderboard, attemptsCol, rounds,
                 lastTick, attempts, stoppedBy>>

\* useDoc delivers the current users/{uid} document (null while there is
\* none), and the effect on userProfile runs.
ProfileSnapshot ==
  /\ mounted
  /\ variant = "identity"
  /\ user # Null
  /\ LET data == IF usersDoc.exists THEN Some(usersDoc) ELSE Null
     IN /\ data # userProfile
        /\ userProfile' = data
        /\ IF data = Null THEN UNCHANGED <<userName, showNameInput>>
           ELSE IF data[1].displayName # ""
                THEN userName' = data[1].displayName /\ showNameInput' = FALSE
                ELSE userName' = userName /\ showNameInput' = TRUE
  /\ lastEvent' = "snapshot"
  /\ UNCHANGED <<variant, mounted, gameState, displayedTime, result, isAiGenerating,
                 scores, stored, toast, requestRef, startTimeRef, frames, clock,
                 aiCalls, timeoutRef, timers, user, isUserLoading,
                 displayedTimeRef, usersDoc, leaderboard, attemptsCol, rounds,
                 lastTick, attempts, stoppedBy>>

\* The name prompt is rendered in stopped, once the feedback call is over.
NamePromptShown ==
  mounted /\ variant = "identity" /\ gameState = "stopped" /\ ~isAiGenerating /\ showNameInput

TypeName ==
  /\ NamePromptShown
  /\ \E name \in Names \ {userName} : userName' = name
  /\ lastEvent' = "typeName"
  /\ UNCHANGED <<variant, mounted, gameState, displayedTime, result, isAiGenerating,
                 scores, stored, toast, requestRef, startTimeRef, frames, clock,
                 aiCalls, timeoutRef, timers, user, isUserLoading, userProfile,
                 showNameInput, displayedTimeRef, usersDoc, leaderboard, attemptsCol,
                 rounds, lastTick, attempts, stoppedBy>>

handleNameSubmit ==
  /\ NamePromptShown
  /\ IF user = Null \/ Trim(userName) = ""
     THEN /\ toast' = "Invalid Name"
          /\ UNCHANGED <<showNameInput, usersDoc>>
     ELSE /\ usersDoc' = [usersDoc EXCEPT !.exists = TRUE, !.displayName = Trim(userName)]
          /\ showNameInput' = FALSE
          /\ toast' = "Name Saved!"
  /\ lastEvent' = "submitName"
  /\ UNCHANGED <<variant, mounted, gameState, displayedTime, result, isAiGenerating,
                 scores, stored, requestRef, startTimeRef, frames, clock,
                 aiCalls, timeoutRef, timers, user, isUserLoading, userProfile,
                 userName, displayedTimeRef, leaderboard, attemptsCol,
                 rounds, lastTick, attempts, stoppedBy>>

-----------------------------------------------------------------------------
(* Identity variant: gameLoop with the hard cutoff, autoStopTimer *)

TimeoutUnscored == EmptyResult

CutoffNever(elapsed) == FALSE

\* "if (elapsed >= 18.0)"
CutoffReached(elapsed) == elapsed >= CutoffTime

TimeoutResult ==
  [finalTime |-> CutoffTime, delta |-> CutoffTime - TARGET_TIME,
   aiResponse |-> Some([message |-> "YOU DIDN'T EVEN TRY",
                        secondaryTaunt |-> "The timer ran out at 18 seconds.",
                        socialProofLine |-> "You have to actually click to play."])]

GameLoopCutoff(grid) ==
  /\ variant = "identity"
  /\ \E f \in frames, now \in FrameTimes(grid) :
       LET start == IF startTimeRef = Null THEN now ELSE startTimeRef[1]
           elapsed == now - start
           id == FreshId((frames \ {f}) \cup {requestRef})
       IN /\ startTimeRef' = Some(start)
          /\ clock' = now
          /\ IF CutoffReached(elapsed)
             THEN \* autoStopTimer
                  /\ frames' = Cancel(frames \ {f}, requestRef)
                  /\ gameState' = "stopped"
                  /\ isAiGenerating' = FALSE
                  /\ result' = TimeoutResult
                  /\ lastEvent' = "timeout"
                  /\ stoppedBy' = "timeout"
                  /\ UNCHANGED <<displayedTime, displayedTimeRef, requestRef, lastTick>>
             ELSE /\ displayedTime' = elapsed
                  /\ displayedTimeRef' = elapsed
                  /\ requestRef' = id
                  /\ frames' = (frames \ {f}) \cup {id}
                  /\ lastTick' = Some([elapsed |-> elapsed, jitter |-> 0, skip |-> 0,
                                       displayed |-> elapsed])
                  /\ lastEvent' = "tick"
                  /\ stoppedBy' = stoppedBy
                  /\ UNCHANGED <<gameState, isAiGenerating, result>>
  /\ UNCHANGED <<variant, mounted, scores, stored, toast, aiCalls, timeoutRef, timers,
                 user, isUserLoading, userProfile, userName, showNameInput, usersDoc,
                 leaderboard, attemptsCol, rounds, attempts>>

-----------------------------------------------------------------------------
(* Identity variant: stopTimer with the document-store writes *)

\* userProfile?.personalBestAccuracy ?? Infinity
SnapshotBest(profile) ==
  IF profile = Null \/ profile[1].personalBestAccuracy = Null THEN Infinity
  ELSE profile[1].personalBestAccuracy[1]

\* userProfile?.totalAttempts || 0
SnapshotTotal(profile) ==
  IF profile = Null \/ profile[1].totalAttempts = Null THEN 0
  ELSE profile[1].totalAttempts[1]

\* userProfile?.displayName || userName || 'Anonymous'
CurrentUserName(profile, typed) ==
  IF profile # Null /\ profile[1].displayName # "" THEN profile[1].displayName
  ELSE IF typed # "" THEN typed
  ELSE "Anonymous"

\* setDoc on doc(collection, id): one document per id.
SetDoc(collection, id, row) ==
  {d \in collection : d.id # id} \cup {[id |-> id, row |-> row]}

StopWhenSignedIn == user # Null

\* "if (gameState !== 'playing' || !user) return;"
StopAcceptedIdentity == gameState = "playing" /\ user # Null

StopTimerIdentity ==
  /\ mounted
  /\ variant = "identity"
  /\ IF ~StopAcceptedIdentity THEN Ignored("stop")
     ELSE LET finalTime == displayedTimeRef
              delta == finalTime - TARGET_TIME
              absDeltaNow == Abs(delta)
              oldPersonalBest == SnapshotBest(userProfile)
              isNewPersonalBest == absDeltaNow < oldPersonalBest
              newTotalAttempts == SnapshotTotal(userProfile) + 1
              newPersonalBestValue == Min(SnapshotBest(userProfile), absDeltaNow)
              currentUserName == CurrentUserName(userProfile, userName)
          IN /\ attemptsCol' = Append(attemptsCol, [userId |-> user[1],
                                        stoppedTime |-> finalTime,
                                        deltaFromTarget |-> absDeltaNow])
             /\ usersDoc' = [usersDoc EXCEPT !.exists = TRUE,
                               !.totalAttempts = Some(newTotalAttempts),
                               !.personalBestAccuracy = Some(newPersonalBestValue)]
             /\ leaderboard' =
                  IF currentUserName # "Anonymous" /\ isNewPersonalBest
                  THEN SetDoc(leaderboard, user[1],
                              [userId |-> user[1], userName |-> currentUserName,
                               stoppedTime |-> finalTime, deltaFromTarget |-> absDeltaNow])
                  ELSE leaderboard
             /\ StopCommon(finalTime)
             /\ UNCHANGED <<scores, stored, toast>>

-----------------------------------------------------------------------------
(* Specifications *)

Next ==
  \/ StartGame(MaxRounds)
  \/ GameLoop(ElapsedGrid, JitterSet, SkipSet)
  \/ GameLoopCutoff(ElapsedGrid)
  \/ StopTimer(BOOLEAN)
  \/ StopTimerAuto
  \/ StopTimerIdentity
  \/ AiSucceeds(AiOutputs)
  \/ AiFails
  \/ RestartTimerFires
  \/ Unmount
  \/ SignInSettles
  \/ ProfileSnapshot
  \/ TypeName
  \/ handleNameSubmit

Spec == Init /\ [][Next]_vars

\* The local-leaderboard variant over many rounds, without jitter.
NextBoard ==
  \/ StartGame(MaxBoardRounds)
  \/ GameLoop(BoardGrid, NoJitter, NoSkip)
  \/ StopTimer({TRUE})
  \/ AiSucceeds({Some(CustomMessage)})

SpecBoard == InitBoard /\ [][NextBoard]_vars

\* The identity variant over more rounds.
InitIdentity == InitOf("identity")

NextIdentity ==
  \/ StartGame(MaxIdentityRounds)
  \/ GameLoopCutoff(IdentityGrid)
  \/ StopTimerIdentity
  \/ AiSucceeds(AiOutputs)
  \/ AiFails
  \/ SignInSettles
  \/ ProfileSnapshot
  \/ TypeName
  \/ handleNameSubmit

SpecIdentity == InitIdentity /\ [][NextIdentity]_vars

\* The identity variant with teardown, the browser running every registered
\* animation-frame callback: a frame that stays requested is eventually run.
NextCutoff ==
  \/ StartGame(MaxRounds)
  \/ GameLoopCutoff(IdentityGrid)
  \/ StopTimerIdentity
  \/ AiSucceeds(AiOutputs)
  \/ AiFails
  \/ SignInSettles
  \/ ProfileSnapshot
  \/ TypeName
  \/ handleNameSubmit
  \/ Unmount

SpecCutoff ==
  InitIdentity /\ [][NextCutoff]_vars /\ WF_vars(GameLoopCutoff(IdentityGrid))

\* The auto-restart variant, every feedback call settling and every armed
\* timer firing.
InitAuto == InitOf("auto")

NextAuto ==
  \/ StartGame(MaxRounds)
  \/ GameLoop(ElapsedGrid, JitterSet, SkipSet)
  \/ StopTimerAuto
  \/ AiSucceeds(AiOutputs)
  \/ AiFails
  \/ RestartTimerFires
  \/ Unmount

SpecAuto ==
  /\ InitAuto /\ [][NextAuto]_vars
  /\ WF_vars(AiSucceeds(AiOutputs) \/ AiFails)
  /\ WF_vars(RestartTimerFires)

\* The local variant over what local storage held at startup, saving and
\* loading failing or not.
NextStorage ==
  \/ StartGame(MaxRounds)
  \/ GameLoop(ElapsedGrid, NoJitter, NoSkip)
  \/ StopTimer(BOOLEAN)
  \/ AiSucceeds(AiOutputs)
  \/ AiFails

SpecStorage == InitStorage /\ [][NextStorage]_vars

\* The perturbation alone: one round of the local variant, frames every half
\* second and around the 10 s knee, every jitter and either skip.
PerturbGrid == {500 * k : k \in 0..PerturbSteps} \cup {9999, 10001, 10016}

NextPerturb ==
  \/ StartGame(MaxRounds)
  \/ GameLoop(PerturbGrid, JitterRange, SkipSet)

SpecPerturb == InitBoard /\ [][NextPerturb]_vars

\* The fallback classifier on every delta of a range: the local variant just
\* after a stop at true elapsed time e with jitter j, the feedback call failing.
InitClassifier ==
  \E e \in ClassifierFrom..ClassifierTo, j \in JitterRange :
    LET finalTime == manipulateTime(e, j, 0)
        score == [finalTime |-> finalTime, delta |-> finalTime - TARGET_TIME]
    IN /\ variant = "local"
       /\ mounted = TRUE
       /\ gameState = "stopped"
       /\ displayedTime = finalTime
       /\ result = [finalTime |-> finalTime, delta |-> finalTime - TARGET_TIME,
                    aiResponse |-> Null]
       /\ isAiGenerating = TRUE
       /\ scores = <<score>>
       /\ stored = Some(Stringify(<<score>>))
       /\ toast = ""
       /\ requestRef = 1
       /\ startTimeRef = Some(FirstFrame)
       /\ frames = {}
       /\ clock = FirstFrame + e
       /\ aiCalls = <<score>>
       /\ timeoutRef = 0
       /\ timers = {}
       /\ user = Null
       /\ isUserLoading = FALSE
       /\ userProfile = Null
       /\ userName = ""
       /\ showNameInput = FALSE
       /\ displayedTimeRef = 0
       /\ usersDoc = NoProfile
       /\ leaderboard = {}
       /\ attemptsCol = <<>>
       /\ rounds = 1
       /\ lastEvent = "stop"
       /\ lastTick = Some([elapsed |-> e, jitter |-> j, skip |-> 0, displayed |-> finalTime])
       /\ attempts = <<finalTime>>
       /\ stoppedBy = "click"

NextClassifier == AiFails

SpecClassifier == InitClassifier /\ [][NextClassifier]_vars

-----------------------------------------------------------------------------
(* Properties *)

\* C1: a stop input received while the state is idle or stopped changes
\* nothing of the program's state: game state, result, displayed time,
\* leaderboard, loading flag, calls in flight and every store stay as they are.
C1_StopIgnoredOutsidePlaying ==
  [][(lastEvent' = "stop" /\ gameState \in {"idle", "stopped"}) => UNCHANGED progVars]_vars

\* A stop input was handled in stopped, after the feedback had arrived.
C1_Witness ==
  lastEvent = "stop" /\ gameState = "stopped" /\ ~isAiGenerating /\ result.aiResponse # Null

\* C2 (as claimed): after an accepted stop the state is stopped and finalTime
\* is the displayed time the last tick wrote, which is the perturbed value of
\* the true elapsed time, and stays so until the next start.
C2_FinalTimeIsPerturbedDisplay ==
  (stoppedBy = "click" /\ gameState = "stopped") =>
     /\ result.finalTime = displayedTime
     /\ lastTick # Null =>
          /\ result.finalTime = lastTick[1].displayed
          /\ result.finalTime = manipulateTime(lastTick[1].elapsed, lastTick[1].jitter,
                                               lastTick[1].skip)

\* C3: at most one animation frame is registered, and none while the state
\* is idle or stopped or after teardown.
C3_NoFrameOutsidePlaying ==
  /\ Cardinality(frames) <= 1
  /\ gameState \in {"idle", "stopped"} => frames = {}
  /\ ~mounted => frames = {}

\* A round that ticked has been stopped and its frame is gone.
C3_Witness ==
  gameState = "stopped" /\ lastTick # Null /\ frames = {} /\ requestRef # 0

\* C4: while a feedback call is outstanding the state is stopped, and no
\* step taken while one is outstanding begins a round.
C4_NoStartWhileFeedbackOutstanding ==
  [][/\ aiCalls' # <<>> => gameState' = "stopped"
     /\ aiCalls # <<>> => (rounds' = rounds /\ gameState' = "stopped")]_vars

\* A feedback call is outstanding where a start button exists once it is over.
C4_Witness ==
  aiCalls # <<>> /\ mounted /\ variant # "auto" /\ gameState = "stopped" /\ isAiGenerating

\* C5 (as claimed): once the feedback call of an accepted stop has completed,
\* the result holds a feedback whose message is not empty.
C5_FeedbackNeverEmpty ==
  (mounted /\ stoppedBy = "click" /\ aiCalls = <<>>) =>
     (result.aiResponse # Null /\ result.aiResponse[1].message # "")

Labels == {"PERFECT", "SO CLOSE", "TOO LATE", "TOO EARLY", "ALMOST", "NOT EVEN CLOSE"}

\* C6: a failed feedback call leaves the round's finalTime and delta, sets
\* the feedback to the local fallback for that delta, whose message is one of
\* the six labels, and the handler completes: the loading flag is cleared and
\* the state is stopped.
C6_FailureYieldsFallback ==
  [][(lastEvent' = "aiFailure" /\ mounted /\ aiCalls # <<>>) =>
       /\ result' = [finalTime |-> result.finalTime, delta |-> result.delta,
                     aiResponse |-> Some(getFallbackMessage(result.delta))]
       /\ result'.aiResponse[1].message \in Labels
       /\ isAiGenerating' = FALSE
       /\ gameState' = "stopped"
       /\ aiCalls' = <<>>]_vars

\* The feedback call has failed and the fallback is shown.
C6_Witness ==
  /\ lastEvent = "aiFailure" /\ mounted /\ toast = "Connection Error"
  /\ result.aiResponse # Null /\ result.aiResponse[1].message \in Labels

\* C7: the fallback message is the class of |delta|, the classes being a
\* partition with exclusive upper bounds 0.02, 0.10, 0.30, 0.60 s, and the
\* third class is split by the sign of delta.
C7_ClassifierPartition ==
  (lastEvent = "aiFailure" /\ result.aiResponse # Null) =>
     LET d == result.delta
         a == Abs(d)
         m == result.aiResponse[1].message
     IN /\ (m = "PERFECT") <=> (a < 20)
        /\ (m = "SO CLOSE") <=> (20 <= a /\ a < 100)
        /\ (m = "TOO LATE") <=> (100 <= a /\ a < 300 /\ d > 0)
        /\ (m = "TOO EARLY") <=> (100 <= a /\ a < 300 /\ d < 0)
        /\ (m = "ALMOST") <=> (300 <= a /\ a < 600)
        /\ (m = "NOT EVEN CLOSE") <=> (600 <= a)

\* A delta on a class boundary has been classified into the next class.
C7_Witness ==
  /\ lastEvent = "aiFailure" /\ result.aiResponse # Null
  /\ result.delta = -300 /\ result.aiResponse[1].message = "ALMOST"

\* The k smallest |finalTime - target| of a list of final times, ascending.
RECURSIVE SmallestAbs(_, _)
SmallestAbs(times, k) ==
  IF k = 0 \/ times = <<>> THEN <<>>
  ELSE LET i == CHOOSE i \in DOMAIN times :
                  \A j \in DOMAIN times : Abs(times[i] - TARGET_TIME) <= Abs(times[j] - TARGET_TIME)
       IN <<Abs(times[i] - TARGET_TIME)>> \o SmallestAbs(RemoveAt(times, i), k - 1)

\* C8: after n accepted stops from an empty list the local leaderboard has
\* min(n, 5) entries, ascending by |delta|, whose |delta| are the min(n, 5)
\* smallest of the n recorded attempts, each entry being a recorded attempt.
C8_LeaderboardKeepsBest ==
  LET n == Len(attempts)
      k == Min(n, Capacity)
  IN /\ Len(scores) = k
     /\ Len(scores) <= 5
     /\ \A i \in 1..(Len(scores) - 1) : absDelta(scores[i]) <= absDelta(scores[i + 1])
     /\ [i \in 1..Len(scores) |-> absDelta(scores[i])] = SmallestAbs(attempts, k)
     /\ \A i \in 1..Len(scores) :
          /\ scores[i].delta = scores[i].finalTime - TARGET_TIME
          /\ Cardinality({j \in 1..Len(scores) : scores[j] = scores[i]})
               <= Cardinality({j \in 1..n : attempts[j] = scores[i].finalTime})

\* Six stops with |delta| 0.5, 0.3, 0.9, 0.1, 0.4, 0.201 in some order: 0.9 is dropped.
C8_Witness ==
  /\ Len(attempts) = 6
  /\ \E j \in 1..6 : attempts[j] = 17900
  /\ Len(scores) = 5
  /\ [i \in 1..5 |-> scores[i].delta] = <<100, 201, 300, 400, -500>>

\* The identity's best |delta| over the attempts recorded so far.
BestSoFar ==
  IF attemptsCol = <<>> THEN Infinity
  ELSE LET i == CHOOSE i \in DOMAIN attemptsCol :
                  \A j \in DOMAIN attemptsCol :
                     attemptsCol[i].deltaFromTarget <= attemptsCol[j].deltaFromTarget
       IN attemptsCol[i].deltaFromTarget

OneRowPerIdentity ==
  \A d1, d2 \in leaderboard : d1.row.userId = d2.row.userId => d1 = d2

\* C9 (as claimed): the shared leaderboard holds at most one row per
\* identity, every accepted stop adds an attempt to the history, and it
\* writes the leaderboard only when its |delta| is strictly lower than the
\* identity's best |delta| so far.
C9_RowWrittenOnlyOnImprovement ==
  [][(variant = "identity" /\ lastEvent' = "stop" /\ gameState = "playing" /\ user # Null) =>
       /\ Len(attemptsCol') = Len(attemptsCol) + 1
       /\ \A d1, d2 \in leaderboard' : d1.row.userId = d2.row.userId => d1 = d2
       /\ leaderboard' # leaderboard =>
            attemptsCol'[Len(attemptsCol')].deltaFromTarget < BestSoFar]_vars

\* C10: while playing the result is the empty result, and until the first
\* tick of the round the displayed time is 0 and the start instant is unset;
\* afterwards the displayed time is what that round's last tick wrote.
C10_StartClearsRound ==
  gameState = "playing" =>
    /\ result = EmptyResult
    /\ aiCalls = <<>>
    /\ lastTick = Null => (displayedTime = 0 /\ startTimeRef = Null)
    /\ lastTick # Null => displayedTime = lastTick[1].displayed

\* A second round has been started after a result with feedback, no tick yet.
C10_Witness ==
  rounds = 2 /\ gameState = "playing" /\ lastTick = Null /\ attempts # <<>>

\* C11: in the hard-cutoff variant a frame at a true elapsed time of 18.0 s or
\* more, and no earlier frame, ends the round: the state goes from playing to
\* stopped with finalTime 18.0, delta +1.0 and the canned "YOU DIDN'T EVEN
\* TRY" feedback, the loading flag is off, no frame stays registered and no
\* feedback call is issued; the result of a timed-out round stays so.
C11_TimeoutGivesFixedResult ==
  [][variant = "identity" =>
       /\ (lastEvent' \in {"tick", "timeout"} /\ startTimeRef' # Null) =>
            /\ (clock' - startTimeRef'[1] >= 18000) <=> (lastEvent' = "timeout")
            /\ lastEvent' = "timeout" =>
                 /\ gameState = "playing" /\ gameState' = "stopped"
                 /\ stoppedBy = "" /\ stoppedBy' = "timeout"
                 /\ aiCalls = <<>> /\ aiCalls' = <<>>
                 /\ frames' = {}
       /\ stoppedBy' = "timeout" =>
            /\ gameState' = "stopped"
            /\ isAiGenerating' = FALSE
            /\ aiCalls' = <<>>
            /\ result'.finalTime = 18000
            /\ result'.delta = 1000
            /\ result'.aiResponse # Null
            /\ result'.aiResponse[1].message = "YOU DIDN'T EVEN TRY"]_vars

\* A round has timed out after frames that showed a time.
C11_Witness ==
  /\ lastEvent = "timeout" /\ gameState = "stopped" /\ lastTick # Null
  /\ result.finalTime = 18000 /\ user # Null

\* C12: in the hard-cutoff variant, every registered frame being run
\* eventually, a round that is playing reaches stopped (or the component is
\* torn down), whether or not a stop input is given or accepted.
C12_EveryRoundStops ==
  (variant = "identity" /\ gameState = "playing") ~> (gameState = "stopped" \/ ~mounted)

\* A round whose stop inputs cannot be accepted (nobody is signed in) has been
\* ended by the cutoff.
C12_Witness ==
  /\ mounted /\ gameState = "stopped" /\ stoppedBy = "timeout" /\ user = Null
  /\ ~isUserLoading

\* C13 (as claimed): in every variant a stop input handled while the state is
\* playing is accepted, whoever is or is not signed in: the state is stopped
\* after that step and the feedback call is issued.
C13_StopAcceptedWhilePlaying ==
  [][(lastEvent' = "stop" /\ gameState = "playing") =>
       (gameState' = "stopped" /\ aiCalls' # <<>>)]_vars

\* C14 (as claimed): in every variant the displayed time while playing is the
\* perturbed value of the true elapsed time of the last tick, and not the true
\* elapsed time itself once the two differ.
C14_DisplayIsPerturbedEverywhere ==
  (gameState = "playing" /\ lastTick # Null) =>
     displayedTime = manipulateTime(lastTick[1].elapsed, lastTick[1].jitter,
                                    lastTick[1].skip)

\* C15 (as claimed): each tick of a round writes a displayed time at least as
\* large as the one the previous tick of that round wrote.
C15_DisplayNeverDecreases ==
  [][(lastEvent' = "tick" /\ lastTick # Null /\ lastTick' # Null) =>
       lastTick'[1].displayed >= lastTick[1].displayed]_vars

\* C15 (amended): over a round the displayed time less the jitter and skip of
\* its tick never decreases, so a tick writes at least what the previous tick
\* wrote less that tick's jitter and skip: a drop is smaller than 0.08 s.
C15_DisplayDropsOnlyByJitter ==
  [][(lastEvent' = "tick" /\ lastTick # Null /\ lastTick' # Null) =>
       LET prev == lastTick[1]
           cur == lastTick'[1]
       IN /\ displayedTime' = cur.displayed
          /\ cur.displayed - cur.jitter - cur.skip >= prev.displayed - prev.jitter - prev.skip
          /\ cur.displayed >= prev.displayed - prev.jitter - prev.skip
          /\ cur.displayed > prev.displayed - 80]_vars

\* A later tick of a round has run without jitter or skip, 16 ms after the
\* frame at 15.668 s.
C15_Witness ==
  /\ gameState = "playing" /\ variant # "identity" /\ lastTick # Null
  /\ lastTick[1].elapsed = 15684 /\ lastTick[1].jitter = 0 /\ lastTick[1].skip = 0
  /\ displayedTime = 17021

\* C16: for a true elapsed time t the displayed time p is at least t; without
\* jitter and skip p = t up to 10 s and p = t * (1 + (t - 10) * 0.015) after
\* (in whole ms: p - t is the integer part of 15 * t * (t - 10000) / 10^6);
\* with jitter and skip p exceeds that value by at least 0 and less than 80 ms.
C16_PerturbBounds ==
  (variant # "identity" /\ lastTick # Null) =>
     LET t == lastTick[1].elapsed
         p == lastTick[1].displayed
         plain == lastTick[1].jitter = 0 /\ lastTick[1].skip = 0
         \* 200000 times the acceleration term, in ms
         accel == IF t > 10000 THEN 3 * t * (t - 10000) ELSE 0
     IN /\ t >= 0 /\ p >= t
        /\ (plain /\ t <= 10000) => p = t
        /\ plain => (200000 * (p - t) <= accel /\ accel < 200000 * (p - t + 1))
        /\ accel < 200000 * (p - t + 1)
        /\ 200000 * (p - t - 79) <= accel

\* A frame at 17 s with the largest jitter and the skip: 17 * 1.105 + 0.079.
C16_Witness ==
  /\ lastTick # Null /\ lastTick[1].elapsed = 17000 /\ lastTick[1].jitter = 29
  /\ lastTick[1].skip = 50 /\ displayedTime = 18864

\* C17: in the auto-restart variant each completion of the feedback call arms
\* the restart timer, the state leaves stopped only by that timer firing, which
\* makes it idle, and every round that was stopped is eventually idle again
\* (or the component is torn down), no start or other input being needed.
C17_AutoRestart ==
  /\ [][variant = "auto" =>
          /\ lastEvent' \in {"aiSuccess", "aiFailure"} =>
               (timeoutRef' \in timers' /\ timeoutRef' \notin timers)
          /\ (aiCalls # <<>> /\ mounted) => (timers = {} /\ gameState' = "stopped")
          /\ (gameState = "stopped" /\ gameState' # "stopped") =>
               (lastEvent' = "restartTimer" /\ gameState' = "idle")
          /\ (lastEvent' = "restartTimer" /\ mounted) => gameState' = "idle"]_vars
  /\ (variant = "auto" /\ gameState = "stopped") ~> (gameState = "idle" \/ ~mounted)

\* The restart timer has brought a stopped round back to idle.
C17_Witness ==
  /\ variant = "auto" /\ mounted /\ lastEvent = "restartTimer" /\ gameState = "idle"
  /\ stoppedBy = "click" /\ result.aiResponse # Null /\ timers = {}

\* C18: an accepted stop of the local variant does the same whether or not
\* the save throws: the state is stopped, the feedback call is issued, and
\* the in-memory list is the old list with the new attempt inserted at its
\* sorted position and cut to five entries; when the save did not take, the
\* stored list is left as it was and the user has been notified.  At startup
\* the in-memory list is what storage held, or empty when there was nothing or
\* reading it threw, and the game can be started.
C18_SaveFailureKeepsRound ==
  [][/\ (lastEvent' = "stop" /\ gameState = "playing") =>
          LET newScore == [finalTime |-> displayedTime, delta |-> displayedTime - 17000]
              k == Cardinality({i \in 1..Len(scores) : Abs(scores[i].delta) <= Abs(newScore.delta)})
              inserted == SubSeq(scores, 1, k) \o <<newScore>> \o SubSeq(scores, k + 1, Len(scores))
          IN /\ gameState' = "stopped"
             /\ isAiGenerating'
             /\ aiCalls' = <<newScore>>
             /\ result' = [finalTime |-> newScore.finalTime, delta |-> newScore.delta,
                            aiResponse |-> Null]
             /\ scores' = SubSeq(inserted, 1, Min(5, Len(inserted)))
             /\ k < 5 => scores'[k + 1] = newScore
             /\ stored' = stored \/ (stored' # Null /\ Parse(stored'[1]) = scores')
             /\ ~(stored' # Null /\ Parse(stored'[1]) = scores') =>
                  toast' = "Leaderboard Error"
     /\ (lastEvent = "mount" /\ rounds = 0) =>
          /\ scores = <<>> \/ (stored # Null /\ Parse(stored[1]) = scores)
          /\ ENABLED StartGame(MaxRounds)]_vars

\* Reading storage threw at startup although a list was stored, and the save
\* of the first stop threw too: the attempt is in memory only.
C18_Witness ==
  /\ gameState = "stopped" /\ toast = "Leaderboard Error" /\ rounds = 1
  /\ Len(scores) = 1 /\ scores[1].finalTime = result.finalTime
  /\ stored # Null /\ Parse(stored[1]) # scores

\* C19: a failed feedback call raises the connection-error notification and
\* leaves the round stopped with the loading flag cleared, after which a start
\* button is enabled (or, in the auto-restart variant, the restart timer is
\* armed); and whenever the state is stopped with the loading flag on, a
\* feedback call is still outstanding.
C19_FailedFeedbackNotFatal ==
  [][/\ (lastEvent' = "aiFailure" /\ mounted) =>
          /\ toast' = "Connection Error"
          /\ gameState = "stopped" /\ gameState' = "stopped"
          /\ isAiGenerating /\ ~isAiGenerating'
          /\ result'.aiResponse # Null
          /\ variant # "auto" => StartEnabled'
          /\ variant = "auto" => timeoutRef' \in timers'
     /\ (mounted' /\ gameState' = "stopped" /\ isAiGenerating') => aiCalls' # <<>>]_vars

\* A next round is being played after a feedback call failed.
C19_Witness ==
  /\ mounted /\ rounds = 2 /\ gameState = "playing" /\ toast = "Connection Error"
  /\ lastTick # Null

\* C20: submitting a display name that is empty or a blank, or submitting
\* with nobody signed in, raises the "Invalid Name" notice and changes nothing
\* else: no document is written, the typed name and the profile are as they
\* were and the name prompt stays shown.
C20_InvalidNameRejected ==
  [][(lastEvent' = "submitName" /\ (user = Null \/ userName \in {"", " "})) =>
       /\ toast' = "Invalid Name"
       /\ showNameInput /\ showNameInput'
       /\ UNCHANGED <<usersDoc, leaderboard, attemptsCol, userProfile, userName,
                      gameState, result, isAiGenerating, scores, stored>>]_vars

\* A name of one blank has been submitted and rejected.
C20_Witness ==
  /\ lastEvent = "submitName" /\ toast = "Invalid Name" /\ userName = " "
  /\ showNameInput /\ usersDoc.displayName = ""

\* C21: recording an attempt keeps the entries already listed in their order
\* and puts the new one behind every entry whose |delta| is equal or smaller
\* and ahead of every larger one; a full list whose last entry ties the new
\* attempt is left as it is.
C21_TiesKeepInsertionOrder ==
  [][(variant = "local" /\ lastEvent' = "stop" /\ gameState = "playing") =>
       LET new == [finalTime |-> displayedTime, delta |-> displayedTime - 17000]
           a == Abs(new.delta)
           n == Len(scores)
           kept == scores' = SubSeq(scores, 1, Len(scores'))
           placed(q) ==
             /\ scores'[q] = new
             /\ \A i \in 1..(q - 1) : scores'[i] = scores[i] /\ Abs(scores[i].delta) <= a
             /\ \A i \in (q + 1)..Len(scores') :
                  scores'[i] = scores[i - 1] /\ Abs(scores[i - 1].delta) > a
       IN /\ Len(scores') = Min(n + 1, 5)
          /\ (n = 5 /\ Abs(scores[5].delta) <= a) => scores' = scores
          /\ ~(n = 5 /\ Abs(scores[5].delta) <= a) =>
               \E q \in 1..Len(scores') : placed(q)]_vars

\* The list is full and ends with +0.4; the attempt just recorded, -0.4, ties
\* it and is not listed: the -0.4 ahead of +0.4 is an earlier attempt.
C21_Witness ==
  /\ lastEvent = "stop" /\ result.delta = -400 /\ Len(attempts) = 6
  /\ [i \in 1..Len(scores) |-> scores[i].delta] = <<100, 201, 300, -400, 400>>
  /\ attempts = <<16600, 16600, 17100, 17201, 17300, 17400>>

C23_FeedbackGoesToItsRound ==
  [][/\ (lastEvent' \in {"aiSuccess", "aiFailure"} /\ mounted) =>
          /\ gameState = "stopped" /\ gameState' = "stopped" /\ stoppedBy = "click"
          /\ result.aiResponse = Null
          /\ result'.finalTime = result.finalTime /\ result'.delta = result.delta
          /\ result'.finalTime = IF variant = "identity" THEN displayedTimeRef ELSE displayedTime
          /\ rounds' = rounds
     /\ aiCalls # <<>> =>
          /\ rounds' = rounds
          /\ mounted => (aiCalls[1].finalTime = result.finalTime /\ aiCalls[1].delta = result.delta)
     /\ gameState' = "playing" => result'.aiResponse = Null]_vars

\* The response of the second round's call has been stored in the second
\* round's result.
C23_Witness ==
  /\ mounted /\ lastEvent = "aiSuccess" /\ rounds = 2 /\ gameState = "stopped"
  /\ result.aiResponse = Some(CustomMessage) /\ Len(attempts) = 2
  /\ attempts[1] # attempts[2] /\ result.finalTime = displayedTime

\* The |delta| of the identity's leaderboard row, Infinity when it has none.
RowDelta(board) ==
  IF \E d \in board : d.id = Uid
  THEN (CHOOSE d \in board : d.id = Uid).row.deltaFromTarget
  ELSE Infinity

\* The stored personal best, Infinity when none is stored.
StoredBest(profileDoc) ==
  IF profileDoc.personalBestAccuracy = Null THEN Infinity
  ELSE profileDoc.personalBestAccuracy[1]

\* C24 (as claimed): over any sequence of attempts of one identity the stored
\* personalBestAccuracy never increases, and its leaderboard row is never
\* replaced by a row with a larger |delta|.
C24_BestNeverWorsens ==
  [][variant = "identity" =>
       /\ StoredBest(usersDoc') <= StoredBest(usersDoc)
       /\ RowDelta(leaderboard') <= RowDelta(leaderboard)]_vars

\* C25 (as claimed): the userName of every leaderboard row is the display
\* name saved in the identity's profile, which is not empty after trimming; an
\* identity without a saved display name has no row.
C25_RowNameIsSavedName ==
  \A d \in leaderboard :
    /\ d.row.userName \notin {"", " "}
    /\ usersDoc.displayName # ""
    /\ d.row.userName = usersDoc.displayName

\* C26 (as claimed): once an identity with a saved display name has made an
\* attempt while named, the leaderboard has its row, and the row's |delta| is
\* the best |delta| over all its attempts.
C26_RowHoldsBestOfAllAttempts ==
  (variant = "identity" /\ usersDoc.displayName # "" /\ lastEvent = "stop"
     /\ gameState = "stopped" /\ isAiGenerating) =>
       \E d \in leaderboard : d.id = Uid /\ d.row.deltaFromTarget = BestSoFar

\* C27 (as claimed): the stored totalAttempts is the number of attempts in
\* the identity's history.
C27_TotalCountsEveryAttempt ==
  attemptsCol # <<>> => usersDoc.totalAttempts = Some(Len(attemptsCol))

\* C28 (as claimed): after teardown no animation frame and no timer of the
\* component is armed.
C28_NothingArmedAfterTeardown ==
  ~mounted => (frames = {} /\ timers = {})

\* C29: the step that times a round out leaves the attempt history, the
\* profile and the leaderboard as they are, and a step that adds an attempt,
\* changes totalAttempts or personalBestAccuracy or writes the leaderboard is
\* a stop click handled while playing with somebody signed in.
C29_TimeoutRecordsNothing ==
  [][variant = "identity" =>
       /\ lastEvent' = "timeout" => UNCHANGED <<attemptsCol, usersDoc, leaderboard>>
       /\ (\/ attemptsCol' # attemptsCol
           \/ leaderboard' # leaderboard
           \/ usersDoc'.totalAttempts # usersDoc.totalAttempts
           \/ usersDoc'.personalBestAccuracy # usersDoc.personalBestAccuracy) =>
             /\ lastEvent' = "stop" /\ gameState = "playing" /\ user # Null
             /\ stoppedBy' = "click"
             /\ Len(attemptsCol') = Len(attemptsCol) + 1]_vars

\* The second round has timed out; the records are those of the first
\* round's click.
C29_Witness ==
  /\ rounds = 2 /\ gameState = "stopped" /\ stoppedBy = "timeout"
  /\ Len(attemptsCol) = 1 /\ usersDoc.totalAttempts = Some(1)

\* C30: in every state the loading flag is on only if the state is stopped
\* and the result holds no feedback, and at most one feedback call is
\* outstanding.
C30_LoadingOnlyWhileStoppedWithoutFeedback ==
  /\ isAiGenerating => (gameState = "stopped" /\ result.aiResponse = Null)
  /\ Len(aiCalls) <= 1

\* The second round has just been stopped and its feedback call is
\* outstanding.
C30_Witness ==
  /\ isAiGenerating /\ Len(aiCalls) = 1 /\ rounds = 2 /\ lastEvent = "stop"
  /\ gameState = "stopped" /\ Len(attempts) = 2 /\ mounted

\* C31: in the local variant, after an accepted stop whose save succeeds,
\* local storage holds an item, and loading it as the mount effect does gives
\* the in-memory leaderboard: the same entries, with the same finalTime and
\* delta, in the same order.
C31_ReloadRestoresList ==
  [][(gameState = "playing" /\ StopTimer({TRUE})) =>
       /\ stored' # Null
       /\ Len(stored'[1]) = Len(scores')
       /\ LoadedScores(stored', TRUE) = scores'
       /\ \A i \in 1..Len(scores') :
            /\ ParseNumber(stored'[1][i].finalTime) = scores'[i].finalTime
            /\ ParseNumber(stored'[1][i].delta) = scores'[i].delta]_vars

\* A list of one entry was loaded at startup; a stop at a displayed 17.021 s
\* has been saved ahead of it, and storage restores both in that order.
C31_Witness ==
  /\ lastEvent = "stop" /\ gameState = "stopped" /\ toast = ""
  /\ Len(scores) = 2 /\ scores[1].delta = 21 /\ scores[2].finalTime = 17100
  /\ stored # Null /\ Parse(stored[1]) = scores

=============================================================================
